---- MODULE Spec2Model ----
(***************************************************************************)
(* Model of maas-report.py: a script that connects to a MaaS server,       *)
(* fetches every machine, classifies the machines into three lists and     *)
(* prints a report.                                                        *)
(*                                                                         *)
(* A Python str is a sequence of code points (ASCII range).  An optional   *)
(* value (None or a value) is a sequence of length 0 or 1.                 *)
(***************************************************************************)
EXTENDS Integers, Sequences, FiniteSets

VARIABLES
    MAAS_API_URL,            \* optional str: os.environ.get("MAAS_API_URL")
    MAAS_API_KEY,            \* optional str: os.environ.get("MAAS_API_KEY")
    pc,                      \* position of the process in main / get_maas_client
    calls,                   \* calls made on the maas client library, in order
    all_machines,            \* the list returned by maas_client.machines.list()
    available_servers,       \* generate_report's three lists
    potential_issue_servers,
    failed_servers,
    stdout,                  \* print calls to standard output, in order
    stderr,                  \* print calls to standard error, in order
    exit_code                \* optional int: the process's exit status once ended

vars == <<MAAS_API_URL, MAAS_API_KEY, pc, calls, all_machines, available_servers,
          potential_issue_servers, failed_servers, stdout, stderr, exit_code>>

----------------------------------------------------------------------------
(* Bounds *)

MaxMachines == 3

----------------------------------------------------------------------------
(* String literals of the source *)

S_Ready == <<82, 101, 97, 100, 121>>                         \* "Ready"
S_failed == <<102, 97, 105, 108, 101, 100>>                  \* "failed"
S_broken == <<98, 114, 111, 107, 101, 110>>                  \* "broken"
S_available == <<97, 118, 97, 105, 108, 97, 98, 108, 101>>   \* "available"
S_DCOPS_ == <<68, 67, 79, 80, 83, 45>>                       \* "DCOPS-"
S_Unassigned == <<85, 110, 97, 115, 115, 105, 103, 110, 101, 100>>  \* "Unassigned"

HostWidth == 25
SystemIdWidth == 12
OwnerWidth == 15
StatusWidth == 20

----------------------------------------------------------------------------
(* Python primitives *)

None == <<>>
Some(v) == <<v>>

\* bool(v) for an optional str: None and "" are falsy
Truthy(o) == o # None /\ o[1] # <<>>

\* str.lower() on one ASCII code point
LowerChar(c) == IF c >= 65 /\ c <= 90 THEN c + 32 ELSE c

\* str.lower()
Lower(s) == [i \in 1..Len(s) |-> LowerChar(s[i])]

\* sub in s
Contains(s, sub) ==
    \E i \in 0..(Len(s) - Len(sub)) : SubSeq(s, i + 1, i + Len(sub)) = sub

\* a < b on str: code point order, a proper prefix is smaller
StrLess(a, b) ==
    \/ \E i \in 1..Len(a) :
          /\ i <= Len(b)
          /\ a[i] < b[i]
          /\ \A j \in 1..(i - 1) : a[j] = b[j]
    \/ /\ Len(a) < Len(b)
       /\ \A j \in 1..Len(a) : a[j] = b[j]

\* as FormatLeft, but a longer value is cut to the width (format "<w.w")
FormatLeftTruncating(s, w) ==
    IF Len(s) >= w THEN SubSeq(s, 1, w) ELSE s \o [i \in 1..(w - Len(s)) |-> 32]

\* format(s, "<w") : left-align in a field of minimum width w, pad with spaces
FormatLeft(s, w) ==
    IF Len(s) >= w THEN s ELSE s \o [i \in 1..(w - Len(s)) |-> 32]

----------------------------------------------------------------------------
(* generate_report: classification *)

\* as IsFailedStatus, but "failed" is looked up without lower()
IsFailedStatusCaseSensitive(status_name) ==
    Contains(status_name, S_failed) \/ Contains(Lower(status_name), S_broken)

\* "failed" in status_name.lower() or "broken" in status_name.lower()
IsFailedStatus(status_name) ==
    Contains(Lower(status_name), S_failed) \/ Contains(Lower(status_name), S_broken)

\* as IsReady, but compared after lower()
IsReadyIgnoreCase(status_name) == Lower(status_name) = Lower(S_Ready)

\* machine.status_name == 'Ready'
IsReady(status_name) == status_name = S_Ready

\* 'available' in [tag.lower() for tag in machine.tags]
HasAvailableTag(tags) == \E i \in 1..Len(tags) : Lower(tags[i]) = S_available

\* as dcops_pattern_match, but with search() and no anchor: a match anywhere
dcops_pattern_search(tag) ==
    \E k \in 0..(Len(tag) - Len(S_DCOPS_)) :
        \A i \in 1..Len(S_DCOPS_) : LowerChar(tag[k + i]) = LowerChar(S_DCOPS_[i])

\* re.compile(r'^DCOPS-.*', re.IGNORECASE).match(tag)
dcops_pattern_match(tag) ==
    /\ Len(tag) >= Len(S_DCOPS_)
    /\ \A i \in 1..Len(S_DCOPS_) : LowerChar(tag[i]) = LowerChar(S_DCOPS_[i])

\* any(dcops_pattern.match(tag) for tag in machine.tags)
HasDcopsTag(tags) == \E i \in 1..Len(tags) : dcops_pattern_match(tags[i])

\* one iteration of the for loop on machine m; acc holds the three lists
ClassifyOne(acc, m) ==
    IF IsFailedStatus(m.status_name)
    THEN [acc EXCEPT !.failed = Append(@, m)]
    ELSE IF IsReady(m.status_name)
         THEN [acc EXCEPT
                 !.available = IF HasAvailableTag(m.tags) THEN Append(@, m) ELSE @,
                 !.potential = IF HasDcopsTag(m.tags) THEN Append(@, m) ELSE @]
         ELSE acc

RECURSIVE ClassifyLoop(_, _, _)
ClassifyLoop(machines, i, acc) ==
    IF i > Len(machines) THEN acc
    ELSE ClassifyLoop(machines, i + 1, ClassifyOne(acc, machines[i]))

Classify(machines) ==
    ClassifyLoop(machines, 1, [available |-> <<>>, potential |-> <<>>, failed |-> <<>>])

----------------------------------------------------------------------------
(* generate_report: sorting and rendering *)

\* as InsertByHostname, but m goes in front of the entries with an equal key
RECURSIVE InsertBeforeEqual(_, _)
InsertBeforeEqual(s, m) ==
    IF s = <<>> THEN <<m>>
    ELSE IF StrLess(m.hostname, Head(s).hostname) \/ m.hostname = Head(s).hostname
         THEN <<m>> \o s
         ELSE <<Head(s)>> \o InsertBeforeEqual(Tail(s), m)

\* insert m into the sorted list s behind every entry whose key is not greater
RECURSIVE InsertByHostname(_, _)
InsertByHostname(s, m) ==
    IF s = <<>> THEN <<m>>
    ELSE IF StrLess(m.hostname, Head(s).hostname)
         THEN <<m>> \o s
         ELSE <<Head(s)>> \o InsertByHostname(Tail(s), m)

RECURSIVE SortLoop(_, _, _)
SortLoop(list, i, acc) ==
    IF i > Len(list) THEN acc
    ELSE SortLoop(list, i + 1, InsertByHostname(acc, list[i]))

\* sorted(list, key=lambda x: x.hostname)
SortedByHostname(list) == SortLoop(list, 1, <<>>)

\* one print call: a fixed text, or a machine line with its rendered fields
FixedLine(kind, section, text) ==
    [kind |-> kind, section |-> section, text |-> text, m |-> None, fields |-> <<>>]

\* owner = m.owner.username if m.owner else "Unassigned"
OwnerName(m) == IF m.owner # None THEN m.owner[1] ELSE S_Unassigned

\* the line of an Available / Potential-Issue machine
MachineLine(section, m) ==
    [kind |-> "machine", section |-> section, text |-> "", m |-> Some(m),
     fields |-> <<FormatLeft(m.hostname, HostWidth),
                  FormatLeft(m.system_id, SystemIdWidth),
                  FormatLeft(OwnerName(m), OwnerWidth),
                  m.tags>>]

\* status_msg = f"Message: {m.status_message}" if m.status_message else ""
StatusMsg(m) == IF Truthy(m.status_message) THEN m.status_message ELSE None

\* the line of a Failed machine
FailedLine(section, m) ==
    [kind |-> "machine", section |-> section, text |-> "", m |-> Some(m),
     fields |-> <<FormatLeft(m.hostname, HostWidth),
                  FormatLeft(m.system_id, SystemIdWidth),
                  FormatLeft(m.status_name, StatusWidth),
                  StatusMsg(m)>>]

SectionTitle(section) ==
    CASE section = "A" -> "(servers available)"
      [] section = "B" -> "(servers with potential issues)"
      [] section = "C" -> "(Machines in any kind of failed state)"

NoneFoundText(section) ==
    CASE section = "A" -> "  No machines in 'Ready' state found with the 'available' tag."
      [] section = "B" -> "  No machines in 'Ready' state found with a 'DCOPS-*' tag."
      [] section = "C" -> "  No machines found in a failed or broken state."

\* as SectionBody, but an empty list prints an empty block
SectionBodyNoSentence(section, list) ==
    [i \in 1..Len(list) |->
        IF section = "C" THEN FailedLine(section, SortedByHostname(list)[i])
                         ELSE MachineLine(section, SortedByHostname(list)[i])]

\* if list: one line per sorted entry; else: the "none found" sentence
SectionBody(section, list) ==
    IF list # <<>>
    THEN [i \in 1..Len(list) |->
            IF section = "C" THEN FailedLine(section, SortedByHostname(list)[i])
                             ELSE MachineLine(section, SortedByHostname(list)[i])]
    ELSE <<FixedLine("none", section, NoneFoundText(section))>>

\* rule, title, rule, body, blank
Section(section, list) ==
    <<FixedLine("rule", section, "="), FixedLine("title", section, SectionTitle(section)),
      FixedLine("rule", section, "=")>>
    \o SectionBody(section, list)
    \o <<FixedLine("blank", section, "\n")>>

Banner ==
    <<FixedLine("banner", "", "\n============================================================"),
      FixedLine("banner", "", "        MaaS Machine Status Report"),
      FixedLine("banner", "", "============================================================\n")>>

Progress(text) == FixedLine("progress", "", text)

----------------------------------------------------------------------------
(* Inputs: environment values and machine records *)

S_url == <<104, 116, 116, 112, 58, 47, 47, 109>>     \* "http://m"
S_key == <<97, 58, 98, 58, 99>>                      \* "a:b:c"

S_ready == <<114, 101, 97, 100, 121>>                \* "ready"
S_READY == <<82, 69, 65, 68, 89>>                    \* "READY"
S_ReadySp == <<82, 101, 97, 100, 121, 32>>           \* "Ready "
S_Deployed == <<68, 101, 112, 108, 111, 121, 101, 100>>   \* "Deployed"
S_FailedTesting == <<70, 97, 105, 108, 101, 100, 32, 116, 101, 115, 116, 105, 110, 103>>   \* "Failed testing"
S_FAILED == <<70, 65, 73, 76, 69, 68>>               \* "FAILED"
S_Broken == <<66, 114, 111, 107, 101, 110>>          \* "Broken"
S_unbroken == <<117, 110, 98, 114, 111, 107, 101, 110>>   \* "unbroken"
S_Fail == <<70, 97, 105, 108>>                       \* "Fail"

S_Available == <<65, 118, 97, 105, 108, 97, 98, 108, 101>>        \* "Available"
S_availables == <<97, 118, 97, 105, 108, 97, 98, 108, 101, 115>>  \* "availables"
S_DCOPS_1 == <<68, 67, 79, 80, 83, 45, 49>>                       \* "DCOPS-1"
S_DCOPS_123 == <<68, 67, 79, 80, 83, 45, 49, 50, 51>>             \* "DCOPS-123"
S_dcops_7 == <<100, 99, 111, 112, 115, 45, 55>>                   \* "dcops-7"
S_xDCOPS_1 == <<120, 68, 67, 79, 80, 83, 45, 49>>                 \* "xDCOPS-1"
S_DCOPS == <<68, 67, 79, 80, 83>>                                 \* "DCOPS"

S_srv_a == <<115, 114, 118, 45, 97>>     \* "srv-a"
S_srv_b == <<115, 114, 118, 45, 98>>     \* "srv-b"
S_srv_c == <<115, 114, 118, 45, 99>>     \* "srv-c"
S_srv_d == <<115, 114, 118, 45, 100>>    \* "srv-d"
S_host25 == <<114, 97, 99, 107, 48, 55, 45, 110, 111, 100, 101, 45, 48, 49, 50, 51, 52, 53, 54, 55, 56, 57, 97, 98, 99>>   \* "rack07-node-0123456789abc", 25 long
S_host27 == <<114, 97, 99, 107, 48, 55, 45, 110, 111, 100, 101, 45, 48, 49, 50, 51, 52, 53, 54, 55, 56, 57, 97, 98, 99, 100, 101>>   \* "rack07-node-0123456789abcde", 27 long
S_id6 == <<97, 98, 99, 49, 50, 51>>      \* "abc123"
S_id6b == <<100, 101, 102, 52, 53, 54>>  \* "def456"
S_id12 == <<97, 98, 99, 100, 101, 102, 49, 50, 51, 52, 53, 54>>       \* "abcdef123456", 12 long
S_id13 == <<97, 98, 99, 100, 101, 102, 49, 50, 51, 52, 53, 54, 55>>   \* "abcdef1234567", 13 long
S_alice == <<97, 108, 105, 99, 101>>     \* "alice"
S_user15 == <<111, 112, 101, 114, 97, 116, 111, 114, 45, 48, 48, 48, 48, 49, 53>>       \* "operator-000015", 15 long
S_user16 == <<111, 112, 101, 114, 97, 116, 111, 114, 45, 48, 48, 48, 48, 48, 49, 54>>   \* "operator-0000016", 16 long
S_diskError == <<100, 105, 115, 107, 32, 101, 114, 114, 111, 114>>    \* "disk error"

\* the values os.environ.get can give: unset, empty, set
EnvValues(v) == {None, Some(<<>>), Some(v)}

Machine(hostname, system_id, status_name, status_message, tags, owner) ==
    [hostname |-> hostname, system_id |-> system_id, status_name |-> status_name,
     status_message |-> status_message, tags |-> tags, owner |-> owner]

S_id_a1 == <<97, 49, 98, 50, 99, 51>>   \* "a1b2c3"
S_id_a2 == <<97, 50, 98, 51, 99, 52>>   \* "a2b3c4"
S_id_a3 == <<97, 51, 98, 52, 99, 53>>   \* "a3b4c5"
S_id_b2 == <<98, 50, 99, 51, 100, 52>>   \* "b2c3d4"
S_id_b3 == <<98, 51, 99, 52, 100, 53>>   \* "b3c4d5"
S_id_c2 == <<99, 50, 100, 51, 101, 52>>   \* "c2d3e4"
S_id_d1 == <<100, 49, 101, 50, 102, 51>>   \* "d1e2f3"

\* the three machines of the scenario, in input order
M_srv_b == Machine(S_srv_b, S_id6, S_Ready, None, <<S_available>>, None)
M_srv_a == Machine(S_srv_a, S_id6b, S_Ready, None, <<S_DCOPS_1, S_available>>, Some(S_alice))
M_srv_c == Machine(S_srv_c, S_id12, S_Broken, None, <<>>, None)
Scenario == <<M_srv_b, M_srv_a, M_srv_c>>

\* the machines whole inventories are drawn from; each has its own system id,
\* several share a hostname
MachineUniverse ==
    {M_srv_b, M_srv_a, M_srv_c,
     Machine(S_srv_a, S_id_a2, S_Ready, None, <<S_Available, S_DCOPS_123>>, None),
     Machine(S_srv_a, S_id_a3, S_Ready, None, <<>>, Some(S_alice)),
     Machine(S_srv_b, S_id_b2, S_FailedTesting, Some(S_diskError), <<S_available, S_DCOPS_1>>, None),
     Machine(S_srv_b, S_id_b3, S_unbroken, Some(<<>>), <<>>, Some(S_alice)),
     Machine(S_srv_d, S_id_d1, S_ready, None, <<S_available>>, None),
     Machine(S_srv_c, S_id_c2, S_Deployed, None, <<S_DCOPS_1>>, Some(S_alice)),
     Machine(S_srv_b, S_id_a1, S_Ready, None, <<S_available>>, Some(S_alice)),
     Machine(S_host27, S_id13, S_Ready, None, <<S_dcops_7, S_available>>, Some(S_user16))}

\* every list of different elements of S of length at most n
RECURSIVE ListsUpTo(_, _)
ListsUpTo(S, n) ==
    IF n = 0 THEN {<<>>}
    ELSE LET shorter == ListsUpTo(S, n - 1)
             longest == {l \in shorter : Len(l) = n - 1}
         IN  shorter \cup UNION {{Append(l, m) : m \in S \ {l[i] : i \in 1..Len(l)}} : l \in longest}

\* the inventories machines.list() can return: each machine once
Inventories == ListsUpTo(MachineUniverse, MaxMachines)

\* the machines single-machine inventories are drawn from
StatusNames ==
    {S_Ready, S_ready, S_READY, S_ReadySp, S_Deployed, S_FailedTesting, S_FAILED,
     S_Broken, S_unbroken, S_Fail}
TagLists ==
    {<<>>, <<S_available>>, <<S_Available>>, <<S_availables>>, <<S_DCOPS_1>>,
     <<S_dcops_7>>, <<S_xDCOPS_1>>, <<S_DCOPS>>, <<S_DCOPS_>>,
     <<S_Available, S_DCOPS_123>>, <<S_xDCOPS_1, S_availables>>}
Hostnames == {S_srv_a, S_host25, S_host27}
SystemIds == {<<>>, S_id12, S_id13}
Owners == {None, Some(<<>>), Some(S_alice), Some(S_user15), Some(S_user16)}

SingleMachines ==
    {Machine(h, s, st, None, t, o) :
        h \in Hostnames, s \in SystemIds, st \in StatusNames, t \in TagLists, o \in Owners}

----------------------------------------------------------------------------
(* The process: main and get_maas_client *)

Call(op, ok) == [op |-> op, ok |-> ok]

Exit(code) ==
    /\ exit_code' = Some(code)
    /\ pc' = "done"

\* as ConfigMissing, but with "and"
ConfigMissingBoth(url, api_key) == ~Truthy(url) /\ ~Truthy(api_key)

\* not url or not api_key
ConfigMissing(url, api_key) == ~Truthy(url) \/ ~Truthy(api_key)

Init ==
    /\ MAAS_API_URL \in EnvValues(S_url)
    /\ MAAS_API_KEY \in EnvValues(S_key)
    /\ pc = "start"
    /\ calls = <<>>
    /\ all_machines = <<>>
    /\ available_servers = <<>>
    /\ potential_issue_servers = <<>>
    /\ failed_servers = <<>>
    /\ stdout = <<>>
    /\ stderr = <<>>
    /\ exit_code = None

\* get_maas_client: a missing url or key is reported and ends the process
ConfigError ==
    /\ pc = "start"
    /\ ConfigMissing(MAAS_API_URL, MAAS_API_KEY)
    /\ stderr' = Append(stderr, "Error: MAAS_API_URL and MAAS_API_KEY environment variables must be set.")
    /\ Exit(1)
    /\ UNCHANGED <<MAAS_API_URL, MAAS_API_KEY, calls, all_machines, available_servers,
                   potential_issue_servers, failed_servers, stdout>>

\* get_maas_client: both values present, enter the try block
BeginConnect ==
    /\ pc = "start"
    /\ ~ConfigMissing(MAAS_API_URL, MAAS_API_KEY)
    /\ stdout' = Append(stdout, Progress("--> Connecting to MaaS at {url}..."))
    /\ pc' = "connect"
    /\ UNCHANGED <<MAAS_API_URL, MAAS_API_KEY, calls, all_machines, available_servers,
                   potential_issue_servers, failed_servers, stderr, exit_code>>

\* connect(url, apikey=api_key) returns a client
ConnectReturns ==
    /\ pc = "connect"
    /\ calls' = Append(calls, Call("connect", TRUE))
    /\ pc' = "probe"
    /\ UNCHANGED <<MAAS_API_URL, MAAS_API_KEY, all_machines, available_servers,
                   potential_issue_servers, failed_servers, stdout, stderr, exit_code>>

\* as ConnectRaises, but with a bare sys.exit()
ConnectRaisesExitZero ==
    /\ pc = "connect"
    /\ calls' = Append(calls, Call("connect", FALSE))
    /\ stderr' = Append(stderr, "Error connecting to MaaS: {e}")
    /\ Exit(0)
    /\ UNCHANGED <<MAAS_API_URL, MAAS_API_KEY, all_machines, available_servers,
                   potential_issue_servers, failed_servers, stdout>>

\* connect(url, apikey=api_key) raises
ConnectRaises ==
    /\ pc = "connect"
    /\ calls' = Append(calls, Call("connect", FALSE))
    /\ stderr' = Append(stderr, "Error connecting to MaaS: {e}")
    /\ Exit(1)
    /\ UNCHANGED <<MAAS_API_URL, MAAS_API_KEY, all_machines, available_servers,
                   potential_issue_servers, failed_servers, stdout>>

\* client.users.list() returns; get_maas_client returns the client
UsersListReturns ==
    /\ pc = "probe"
    /\ calls' = Append(calls, Call("users.list", TRUE))
    /\ stdout' = Append(stdout, Progress("--> Successfully connected to MaaS."))
    /\ pc' = "fetch"
    /\ UNCHANGED <<MAAS_API_URL, MAAS_API_KEY, all_machines, available_servers,
                   potential_issue_servers, failed_servers, stderr, exit_code>>

\* as UsersListRaises, but the probe is tried again
UsersListRaisesRetry ==
    /\ pc = "probe"
    /\ calls' = Append(calls, Call("users.list", FALSE))
    /\ stderr' = Append(stderr, "Error connecting to MaaS: {e}")
    /\ pc' = "probe"
    /\ UNCHANGED <<MAAS_API_URL, MAAS_API_KEY, all_machines, available_servers,
                   potential_issue_servers, failed_servers, stdout, exit_code>>

\* client.users.list() raises
UsersListRaises ==
    /\ pc = "probe"
    /\ calls' = Append(calls, Call("users.list", FALSE))
    /\ stderr' = Append(stderr, "Error connecting to MaaS: {e}")
    /\ Exit(1)
    /\ UNCHANGED <<MAAS_API_URL, MAAS_API_KEY, all_machines, available_servers,
                   potential_issue_servers, failed_servers, stdout>>

\* main: maas_client.machines.list() returns the inventory
MachinesListReturns ==
    /\ pc = "fetch"
    /\ \E machines \in Inventories :
          /\ all_machines' = machines
          /\ stdout' = stdout \o <<Progress("--> Fetching all machines from MaaS... (This might take a moment on large systems)"),
                                   Progress("--> Found {len(all_machines)} total machines.")>>
    /\ calls' = Append(calls, Call("machines.list", TRUE))
    /\ pc' = "report"
    /\ UNCHANGED <<MAAS_API_URL, MAAS_API_KEY, available_servers,
                   potential_issue_servers, failed_servers, stderr, exit_code>>

\* as MachinesListRaises, but without sys.exit(1): main goes on to the report
MachinesListRaisesGoesOn ==
    /\ pc = "fetch"
    /\ stdout' = Append(stdout, Progress("--> Fetching all machines from MaaS... (This might take a moment on large systems)"))
    /\ calls' = Append(calls, Call("machines.list", FALSE))
    /\ stderr' = Append(stderr, "Error fetching machines from MaaS: {e}")
    /\ pc' = "report"
    /\ UNCHANGED <<MAAS_API_URL, MAAS_API_KEY, all_machines, available_servers,
                   potential_issue_servers, failed_servers, exit_code>>

\* main: maas_client.machines.list() raises
MachinesListRaises ==
    /\ pc = "fetch"
    /\ stdout' = Append(stdout, Progress("--> Fetching all machines from MaaS... (This might take a moment on large systems)"))
    /\ calls' = Append(calls, Call("machines.list", FALSE))
    /\ stderr' = Append(stderr, "Error fetching machines from MaaS: {e}")
    /\ Exit(1)
    /\ UNCHANGED <<MAAS_API_URL, MAAS_API_KEY, all_machines, available_servers,
                   potential_issue_servers, failed_servers>>

\* main: generate_report(all_machines)
GenerateReport ==
    /\ pc = "report"
    /\ available_servers' = Classify(all_machines).available
    /\ potential_issue_servers' = Classify(all_machines).potential
    /\ failed_servers' = Classify(all_machines).failed
    /\ stdout' = stdout \o Banner
                        \o Section("A", Classify(all_machines).available)
                        \o Section("B", Classify(all_machines).potential)
                        \o Section("C", Classify(all_machines).failed)
    /\ pc' = "complete"
    /\ UNCHANGED <<MAAS_API_URL, MAAS_API_KEY, calls, all_machines, stderr, exit_code>>

\* main: the completion line, then the interpreter ends with status 0
ReportComplete ==
    /\ pc = "complete"
    /\ stdout' = Append(stdout, Progress("--> Report generation complete."))
    /\ Exit(0)
    /\ UNCHANGED <<MAAS_API_URL, MAAS_API_KEY, calls, all_machines, available_servers,
                   potential_issue_servers, failed_servers, stderr>>

Next ==
    \/ ConfigError
    \/ BeginConnect
    \/ ConnectReturns
    \/ ConnectRaises
    \/ UsersListReturns
    \/ UsersListRaises
    \/ MachinesListReturns
    \/ MachinesListRaises
    \/ GenerateReport
    \/ ReportComplete

Spec == Init /\ [][Next]_vars

----------------------------------------------------------------------------
(* generate_report on single-machine inventories: the process has connected *)
(* and machines.list() has just returned one machine.                       *)

InitReport ==
    /\ MAAS_API_URL = Some(S_url)
    /\ MAAS_API_KEY = Some(S_key)
    /\ pc = "report"
    /\ calls = <<Call("connect", TRUE), Call("users.list", TRUE), Call("machines.list", TRUE)>>
    /\ all_machines \in {<<m>> : m \in SingleMachines}
    /\ available_servers = <<>>
    /\ potential_issue_servers = <<>>
    /\ failed_servers = <<>>
    /\ stdout = <<Progress("--> Connecting to MaaS at {url}..."),
                  Progress("--> Successfully connected to MaaS."),
                  Progress("--> Fetching all machines from MaaS... (This might take a moment on large systems)"),
                  Progress("--> Found {len(all_machines)} total machines.")>>
    /\ stderr = <<>>
    /\ exit_code = None

NextReport ==
    \/ GenerateReport
    \/ ReportComplete

SpecReport == InitReport /\ [][NextReport]_vars

----------------------------------------------------------------------------
(* Vocabulary of the properties, stated apart from the model's operators *)

Range(s) == {s[i] : i \in 1..Len(s)}

Count(s, x) == Cardinality({i \in 1..Len(s) : s[i] = x})

\* the letter c with its case folded
Fold(c) == IF c \in 65..90 THEN c + 32 ELSE c

\* s, case folded, has the lower-case word at some position
HasWordFolded(s, word) ==
    \E k \in 1..Len(s) :
        /\ k + Len(word) - 1 <= Len(s)
        /\ \A j \in 1..Len(word) : Fold(s[k + j - 1]) = word[j]

FailedOrBroken(status_name) ==
    HasWordFolded(status_name, S_failed) \/ HasWordFolded(status_name, S_broken)

\* tag begins with "DCOPS-", compared without regard to case
BeginsWithDcops(tag) ==
    /\ Len(tag) >= 6
    /\ [i \in 1..6 |-> Fold(tag[i])] = <<100, 99, 111, 112, 115, 45>>

\* tag, case folded, is "available"
IsAvailableTag(tag) == [i \in 1..Len(tag) |-> Fold(tag[i])] = S_available

\* lexicographic order on code points
RECURSIVE LexLess(_, _)
LexLess(a, b) ==
    IF b = <<>> THEN FALSE
    ELSE IF a = <<>> THEN TRUE
    ELSE IF Head(a) # Head(b) THEN Head(a) < Head(b)
    ELSE LexLess(Tail(a), Tail(b))

Max(a, b) == IF a >= b THEN a ELSE b

\* s is v followed by spaces only
PaddedFrom(s, v) ==
    /\ Len(s) >= Len(v)
    /\ SubSeq(s, 1, Len(v)) = v
    /\ \A i \in (Len(v) + 1)..Len(s) : s[i] = 32


Sections == {"A", "B", "C"}

ListOf(section) ==
    CASE section = "A" -> available_servers
      [] section = "B" -> potential_issue_servers
      [] section = "C" -> failed_servers

ReportLine(l) == l.kind # "progress"
MachineLineOf(l, section) == l.kind = "machine" /\ l.section = section
NoneLineOf(l, section) == l.kind = "none" /\ l.section = section

\* the machine lines of a section, in print order
MachineLines(section) == SelectSeq(stdout, LAMBDA l : MachineLineOf(l, section))

\* the machines of those lines
Printed(section) == [i \in 1..Len(MachineLines(section)) |-> MachineLines(section)[i].m[1]]

Hosts(section) == [i \in 1..Len(Printed(section)) |-> Printed(section)[i].hostname]

WithHost(list, h) == SelectSeq(list, LAMBDA m : m.hostname = h)

Succeeded(op) == \E i \in 1..Len(calls) : calls[i] = Call(op, TRUE)
Failed(op) == \E i \in 1..Len(calls) : calls[i] = Call(op, FALSE)
Invoked(op) == Succeeded(op) \/ Failed(op)
Invocations(op) == Cardinality({i \in 1..Len(calls) : calls[i].op = op})

\* generate_report has classified and printed
Reported == Succeeded("machines.list") /\ pc \in {"complete", "done"}

Missing(v) == v = None \/ v = Some(<<>>)
ConfigurationMissing == Missing(MAAS_API_URL) \/ Missing(MAAS_API_KEY)

Ended == pc = "done"

----------------------------------------------------------------------------
(* Properties *)

\* C1: a machine whose statusName, lower-cased, contains "failed" or "broken"
\* is in the Failed list and in neither the Available nor the Potential-Issue
\* list, whatever its tags; and only such machines are in the Failed list.
C1_FailedExclusive ==
    Reported =>
        /\ \A m \in Range(all_machines) :
              FailedOrBroken(m.status_name) =>
                  /\ Count(failed_servers, m) = Count(all_machines, m)
                  /\ m \notin Range(available_servers)
                  /\ m \notin Range(potential_issue_servers)
        /\ \A m \in Range(failed_servers) :
              m \in Range(all_machines) /\ FailedOrBroken(m.status_name)

C1_Witness ==
    /\ Reported
    /\ \E m \in Range(failed_servers) :
          /\ m.status_name = S_FailedTesting
          /\ m.tags = <<S_Available, S_DCOPS_123>>

\* C2: a machine whose statusName is exactly "Ready" is in the Available list
\* iff one of its tags, lower-cased, equals "available", and in the
\* Potential-Issue list iff one of its tags begins with "DCOPS-" compared
\* case-insensitively; the two tests are independent, and an empty tag list
\* puts the machine in neither list.
C2_ReadyByTags ==
    Reported =>
        \A m \in Range(all_machines) :
            m.status_name = S_Ready =>
                /\ m \in Range(available_servers)
                      <=> \E i \in 1..Len(m.tags) : IsAvailableTag(m.tags[i])
                /\ m \in Range(potential_issue_servers)
                      <=> \E i \in 1..Len(m.tags) : BeginsWithDcops(m.tags[i])
                /\ m.tags = <<S_Available, S_DCOPS_123>>
                      => m \in Range(available_servers) /\ m \in Range(potential_issue_servers)
                /\ m.tags = <<>>
                      => m \notin Range(available_servers) /\ m \notin Range(potential_issue_servers)
                /\ m \notin Range(failed_servers)

C2_Witness ==
    /\ Reported
    /\ \E m \in Range(available_servers) :
          /\ m \in Range(potential_issue_servers)
          /\ m.status_name = S_Ready
          /\ m.tags = <<S_Available, S_DCOPS_123>>

\* C3: a machine whose statusName neither contains "failed"/"broken"
\* (case-insensitively) nor equals "Ready" exactly is in none of the three
\* lists, whatever its tags.
C3_OthersDropped ==
    Reported =>
        \A m \in Range(all_machines) :
            (~FailedOrBroken(m.status_name) /\ m.status_name # S_Ready) =>
                /\ m \notin Range(available_servers)
                /\ m \notin Range(potential_issue_servers)
                /\ m \notin Range(failed_servers)

C3_Witness ==
    /\ Reported
    /\ all_machines # <<>>
    /\ all_machines[1].status_name = S_ready
    /\ all_machines[1].tags = <<S_Available, S_DCOPS_123>>
    /\ available_servers = <<>>
    /\ potential_issue_servers = <<>>
    /\ failed_servers = <<>>

\* the lines of a section are a permutation of its list, and entries with
\* equal hostnames keep their order of the list
LinesPermuteStably(section) ==
    /\ Len(Printed(section)) = Len(ListOf(section))
    /\ \A m \in Range(ListOf(section)) :
          Count(Printed(section), m) = Count(ListOf(section), m)
    /\ \A h \in Range(Hosts(section)) :
          WithHost(Printed(section), h) = WithHost(ListOf(section), h)

\* the three lists keep the order of the input
ListsInInputOrder ==
    /\ available_servers = SelectSeq(all_machines, LAMBDA m : m \in Range(available_servers))
    /\ potential_issue_servers = SelectSeq(all_machines, LAMBDA m : m \in Range(potential_issue_servers))
    /\ failed_servers = SelectSeq(all_machines, LAMBDA m : m \in Range(failed_servers))

ScenarioPrinted ==
    all_machines = Scenario =>
        /\ Hosts("A") = <<S_srv_a, S_srv_b>>
        /\ Hosts("B") = <<S_srv_a>>
        /\ Hosts("C") = <<S_srv_c>>

\* C4 as stated: in each section the lines are a permutation of the list,
\* strictly ascending by hostname, equal hostnames in input order.
C4_StrictlyAscending ==
    Reported =>
        /\ ListsInInputOrder
        /\ ScenarioPrinted
        /\ \A section \in Sections :
              /\ LinesPermuteStably(section)
              /\ \A i, j \in 1..Len(Hosts(section)) :
                    i < j => LexLess(Hosts(section)[i], Hosts(section)[j])

\* C4 amended: in each section the lines are a permutation of the list, in
\* non-descending order of hostname (strictly ascending between different
\* hostnames), equal hostnames in input order; the scenario prints srv-a then
\* srv-b, srv-a only, srv-c only.
C4_AscendingStable ==
    Reported =>
        /\ ListsInInputOrder
        /\ ScenarioPrinted
        /\ \A section \in Sections :
              /\ LinesPermuteStably(section)
              /\ \A i, j \in 1..Len(Hosts(section)) :
                    i < j => ~LexLess(Hosts(section)[j], Hosts(section)[i])

C4_Witness ==
    /\ Reported
    /\ Len(available_servers) = 3
    /\ available_servers[1].hostname = S_srv_b
    /\ available_servers[2].hostname = S_srv_a
    /\ available_servers[3].hostname = S_srv_a
    /\ available_servers[2] # available_servers[3]
    /\ Printed("A") = <<available_servers[2], available_servers[3], available_servers[1]>>

\* C5: when the base URL or the API key is missing (unset or empty) the
\* process makes no call on the client library and ends with exit code 1.
C5_MissingConfigNoCall ==
    ConfigurationMissing =>
        /\ calls = <<>>
        /\ pc \in {"start", "done"}
        /\ Ended => exit_code = Some(1)

C5_Witness ==
    /\ MAAS_API_URL = Some(S_url)
    /\ MAAS_API_KEY = Some(<<>>)
    /\ Ended
    /\ exit_code = Some(1)
    /\ calls = <<>>

\* C6: a report line is on standard output only after both the probe and the
\* fetch returned successfully, and a run that ended with a configuration,
\* probe or fetch error has written no report line.
C6_NoPartialReport ==
    /\ (\E i \in 1..Len(stdout) : ReportLine(stdout[i]))
          => Succeeded("users.list") /\ Succeeded("machines.list")
    /\ (Ended /\ (ConfigurationMissing \/ Failed("connect") \/ Failed("users.list")
                    \/ Failed("machines.list")))
          => \A i \in 1..Len(stdout) : ~ReportLine(stdout[i])

C6_Witness ==
    /\ Ended
    /\ Failed("machines.list")
    /\ Succeeded("users.list")
    /\ stdout # <<>>
    /\ stderr # <<>>

\* C7: the probe and the fetch are each invoked at most once, the fetch only
\* after the probe succeeded, nothing is called again after a failure, and a
\* run that completes successfully made the probe and then the fetch, once each.
C7_ProbeThenFetchOnce ==
    /\ Invocations("connect") <= 1
    /\ Invocations("users.list") <= 1
    /\ Invocations("machines.list") <= 1
    /\ \A i \in 1..Len(calls) :
          /\ calls[i].op = "users.list" => \E j \in 1..(i - 1) : calls[j] = Call("connect", TRUE)
          /\ calls[i].op = "machines.list" => \E j \in 1..(i - 1) : calls[j] = Call("users.list", TRUE)
          /\ ~calls[i].ok => i = Len(calls)
    /\ (Ended /\ exit_code = Some(0))
          => SelectSeq(calls, LAMBDA c : c.op # "connect")
                = <<Call("users.list", TRUE), Call("machines.list", TRUE)>>

C7_Witness ==
    /\ Ended
    /\ exit_code = Some(0)
    /\ calls = <<Call("connect", TRUE), Call("users.list", TRUE), Call("machines.list", TRUE)>>

\* the whole report and the completion line are on standard output
FullyPrinted ==
    /\ stdout # <<>>
    /\ stdout[Len(stdout)] = Progress("--> Report generation complete.")
    /\ \A section \in Sections :
          /\ \E i \in 1..Len(stdout) : stdout[i].kind = "title" /\ stdout[i].section = section
          /\ \E i \in 1..Len(stdout) : stdout[i].kind = "blank" /\ stdout[i].section = section
    /\ \E i \in 1..Len(stdout) : stdout[i].kind = "banner"

\* C8: a run ends with exit code 0 or 1; 1 iff the configuration is missing
\* or connect / the probe / the fetch raised; 0 iff the probe and the fetch
\* succeeded and the report was printed up to the completion line.
C8_ExitCodes ==
    /\ Ended <=> exit_code # None
    /\ Ended =>
        /\ exit_code \in {Some(0), Some(1)}
        /\ exit_code = Some(1)
              <=> (ConfigurationMissing \/ Failed("connect") \/ Failed("users.list")
                     \/ Failed("machines.list"))
        /\ exit_code = Some(0)
              <=> (Succeeded("users.list") /\ Succeeded("machines.list") /\ FullyPrinted)

C8_Witness ==
    /\ Ended
    /\ exit_code = Some(1)
    /\ Failed("users.list")
    /\ ~ConfigurationMissing

\* C9: each section prints its "none found" sentence iff its list is empty and
\* machine lines iff it is not; an input that is empty or wholly dropped
\* prints the three sentences.
C9_NoneFoundIffEmpty ==
    Reported =>
        /\ \A section \in Sections :
              /\ Cardinality({i \in 1..Len(stdout) : NoneLineOf(stdout[i], section)})
                    = (IF ListOf(section) = <<>> THEN 1 ELSE 0)
              /\ (\E i \in 1..Len(stdout) : MachineLineOf(stdout[i], section))
                    <=> ListOf(section) # <<>>
              /\ \A i \in 1..Len(stdout) :
                    NoneLineOf(stdout[i], section) => stdout[i].text = NoneFoundText(section)
        /\ (\A m \in Range(all_machines) :
                ~FailedOrBroken(m.status_name) /\ m.status_name # S_Ready)
              => \A section \in Sections :
                    \E i \in 1..Len(stdout) : NoneLineOf(stdout[i], section)

C9_Witness ==
    /\ Reported
    /\ Len(all_machines) = 2
    /\ \A section \in Sections :
          /\ ListOf(section) = <<>>
          /\ \E i \in 1..Len(stdout) : NoneLineOf(stdout[i], section)

\* the Available and Potential-Issue lines
TaggedLines == {i \in 1..Len(stdout) : MachineLineOf(stdout[i], "A") \/ MachineLineOf(stdout[i], "B")}

OwnerShown(m) == IF m.owner = None THEN S_Unassigned ELSE m.owner[1]

\* C10 as stated: in every Available or Potential-Issue line the hostname
\* field is 25 wide, the systemId field 12 and the owner field 15, for every
\* length of the values.
C10_FixedWidths ==
    \A i \in TaggedLines :
        /\ Len(stdout[i].fields[1]) = 25
        /\ Len(stdout[i].fields[2]) = 12
        /\ Len(stdout[i].fields[3]) = 15

\* C10 amended: the hostname field is max(25, length) wide, the systemId field
\* max(12, length), the owner field max(15, length); each holds the whole
\* value (the owner's username, or "Unassigned" without an owner) followed by
\* spaces: a longer value is not truncated.
C10_MinimumWidths ==
    \A i \in TaggedLines :
        LET m == stdout[i].m[1]
            f == stdout[i].fields
        IN  /\ Len(f[1]) = Max(25, Len(m.hostname))
            /\ PaddedFrom(f[1], m.hostname)
            /\ Len(f[2]) = Max(12, Len(m.system_id))
            /\ PaddedFrom(f[2], m.system_id)
            /\ Len(f[3]) = Max(15, Len(OwnerShown(m)))
            /\ PaddedFrom(f[3], OwnerShown(m))

C10_Witness ==
    \E i \in TaggedLines :
        /\ stdout[i].m[1].hostname = S_host27
        /\ stdout[i].m[1].system_id = S_id13
        /\ stdout[i].m[1].owner = Some(S_user16)
        /\ Len(stdout[i].fields[1]) = 27
        /\ Len(stdout[i].fields[2]) = 13
        /\ Len(stdout[i].fields[3]) = 16

====
